---- MODULE Spec2Model ----
(***************************************************************************)
(* Model of src/main.py: the grocery shopping assistant.                   *)
(*                                                                         *)
(*  - suggest_groceries, the keyword classifier exposed as a tool;         *)
(*  - the start-up credential check and run_agent, the conversation loop   *)
(*    around the external agent executor.                                  *)
(*                                                                         *)
(* Text is modelled as a sequence of one-character strings so that         *)
(* str.lower(), == and the substring test `in` are computed, character by  *)
(* character, the way the interpreter computes them.  The external agent   *)
(* (agent_executor.invoke) is an opaque collaborator: each call either     *)
(* returns a result, with or without an "output" entry, or raises.         *)
(***************************************************************************)
EXTENDS Naturals, Sequences, FiniteSets

VARIABLES
    pc,              \* position of the process: startup, awaiting, dispatching, rendering, terminated, aborted (loop); tool_call, tool_done (tool)
    openai_api_key,  \* value of os.environ.get("OPENAI_API_KEY")
    uncaught,        \* message of the exception that ended the process, "" if none
    chat_history,    \* the list chat_history of run_agent
    user_input,      \* the line last returned by input()
    result,          \* the value last returned by agent_executor.invoke
    calls,           \* the calls received by the external agent, in order
    terminal,        \* what has appeared on the terminal, in order
    preferences,     \* argument of suggest_groceries
    observation      \* value returned by suggest_groceries

vars == <<pc, openai_api_key, uncaught, chat_history, user_input, result,
          calls, terminal, preferences, observation>>

loopVars == <<openai_api_key, uncaught, chat_history, user_input, result, calls, terminal>>

toolVars == <<preferences, observation>>

-----------------------------------------------------------------------------
(* Bounds *)

\* number of lines other than the sentinel that one run reads
MaxReads == 3

\* number of text fragments a preference string is put together from
MaxFrags == 3

-----------------------------------------------------------------------------
(* Text *)

UpperCase == <<"A", "B", "C", "D", "E", "F", "G", "H", "I", "J", "K", "L", "M", "N", "O", "P", "Q", "R", "S", "T", "U", "V", "W", "X", "Y", "Z">>

LowerCase == <<"a", "b", "c", "d", "e", "f", "g", "h", "i", "j", "k", "l", "m", "n", "o", "p", "q", "r", "s", "t", "u", "v", "w", "x", "y", "z">>

\* str.lower() on one character
LowerChar(c) ==
    IF \E i \in 1..Len(UpperCase) : UpperCase[i] = c
    THEN LowerCase[CHOOSE i \in 1..Len(UpperCase) : UpperCase[i] = c]
    ELSE c

\* str.lower()
lower(s) == [i \in 1..Len(s) |-> LowerChar(s[i])]

\* the substring test `sub in s`
In(sub, s) ==
    \E i \in 0..Len(s) :
        /\ i + Len(sub) <= Len(s)
        /\ SubSeq(s, i + 1, i + Len(sub)) = sub

-----------------------------------------------------------------------------
(* suggest_groceries *)

kw_vegan == <<"v", "e", "g", "a", "n">>

kw_vegetarian == <<"v", "e", "g", "e", "t", "a", "r", "i", "a", "n">>

kw_low_carb == <<"l", "o", "w", " ", "c", "a", "r", "b">>

kw_high_protein == <<"h", "i", "g", "h", " ", "p", "r", "o", "t", "e", "i", "n">>

VeganList == "Tofu, Almond milk, Broccoli, Quinoa, Spinach, Vegan cheese"

VegetarianList == "Eggs, Milk, Broccoli, Pasta, Spinach, Cheddar cheese"

LowCarbList == "Chicken breast, Salmon, Avocado, Broccoli, Olive oil, Eggs"

HighProteinList == "Chicken breast, Salmon, Protein powder, Greek yogurt, Lentils, Eggs"

DefaultList == "Bread, Milk, Eggs, Apples, Chicken, Rice"

\* suggest_groceries with the low carb test ahead of the vegetarian test
suggest_groceries_lowCarbFirst(p) ==
    IF In(kw_vegan, lower(p)) THEN VeganList
    ELSE IF In(kw_low_carb, lower(p)) THEN LowCarbList
    ELSE IF In(kw_vegetarian, lower(p)) THEN VegetarianList
    ELSE IF In(kw_high_protein, lower(p)) THEN HighProteinList
    ELSE DefaultList

\* suggest_groceries without the final else branch: nothing is returned
suggest_groceries_noDefault(p) ==
    IF In(kw_vegan, lower(p)) THEN VeganList
    ELSE IF In(kw_vegetarian, lower(p)) THEN VegetarianList
    ELSE IF In(kw_low_carb, lower(p)) THEN LowCarbList
    ELSE IF In(kw_high_protein, lower(p)) THEN HighProteinList
    ELSE "None"


suggest_groceries(p) ==
    IF In(kw_vegan, lower(p)) THEN VeganList
    ELSE IF In(kw_vegetarian, lower(p)) THEN VegetarianList
    ELSE IF In(kw_low_carb, lower(p)) THEN LowCarbList
    ELSE IF In(kw_high_protein, lower(p)) THEN HighProteinList
    ELSE DefaultList

-----------------------------------------------------------------------------
(* The tool applied to a preference string *)

\* pieces of text the preference strings are put together from
Fragments ==
    { <<"v", "e", "g", "a", "n">>, <<"V", "e", "g">>, <<"a", "n">>,
      <<"V", "e", "g", "e", "t", "A", "r", "i", "a", "n">>,
      <<"l", "o", "w", " ", "c", "a", "r", "b">>, <<"l", "o", "w", "-", "c", "a", "r", "b">>, <<"L", "O", "W">>, <<" ">>, <<"c", "a", "r", "b">>,
      <<"H", "i", "g", "h", " ", "P", "r", "o", "t", "e", "i", "n">>, <<"x">> }

RECURSIVE Concat(_)
Concat(fs) == IF fs = <<>> THEN <<>> ELSE Head(fs) \o Concat(Tail(fs))

\* the preference strings: up to MaxFrags fragments, joined
Prefs == UNION { { Concat(fs) : fs \in [1..n -> Fragments] } : n \in 0..MaxFrags }

ToolInit ==
    /\ pc = "tool_call"
    /\ preferences \in Prefs
    /\ observation = ""
    /\ openai_api_key = <<"s", "k", "-", "1">>
    /\ uncaught = ""
    /\ chat_history = <<>>
    /\ user_input = <<>>
    /\ result = [has_output |-> FALSE, output |-> <<>>]
    /\ calls = <<>>
    /\ terminal = <<>>

\* the agent runs the tool grocery_suggestion, func=suggest_groceries
InvokeTool ==
    /\ pc = "tool_call"
    /\ observation' = suggest_groceries(preferences)
    /\ pc' = "tool_done"
    /\ UNCHANGED <<preferences, loopVars>>

ToolNext == InvokeTool

ToolSpec == ToolInit /\ [][ToolNext]_vars

-----------------------------------------------------------------------------
(* Start-up and run_agent *)

\* os.environ.get returns None for an absent variable
None == <<"None">>

Keys == { None, <<>>, <<"s", "k", "-", "1">> }

\* the lines input() returns
Lines ==
    { <<>>, <<"e", "x", "i", "t">>, <<"E", "x", "i", "t">>, <<"E", "X", "I", "T">>, <<" ", "e", "x", "i", "t", " ">>, <<"n", "o", " ", "e", "x", "i", "t">> }

\* the replies of the external agent
Replies == { <<"r", "1">>, <<"r", "2">> }

\* agent_executor.invoke returns a dict, with or without the key "output"
Results ==
    { [has_output |-> TRUE, output |-> r] : r \in Replies }
        \cup { [has_output |-> FALSE, output |-> <<>>] }

\* the descriptions of the exceptions the external call raises
Errors == { <<"t", "i", "m", "e", "o", "u", "t">> }

\* str(KeyError("output"))
KeyErrorText == <<"'", "o", "u", "t", "p", "u", "t", "'">>

ApiKeyErrorText == "OpenAI API key not found. Please set the OPENAI_API_KEY environment variable."

HumanMessage(c) == [type |-> "human", content |-> c]

SystemMessage(c) == [type |-> "system", content |-> c]

\* one thing shown on the terminal
Shown(e, t) == [ev |-> e, text |-> t]

\* number of lines read that were passed on to the agent
NumReads == Len(calls)

\* the credential test as `openai_api_key is None`
KeyMissing_noneOnly(k) == k = None

\* `not openai_api_key`
KeyMissing(k) == k = None \/ k = <<>>

\* the sentinel test without lower()
IsExit_caseSensitive(line) == line = <<"e", "x", "i", "t">>

\* the sentinel test as a substring test
IsExit_substring(line) == In(<<"e", "x", "i", "t">>, lower(line))

\* user_input.lower() == "exit"
IsExit(line) == lower(line) = <<"e", "x", "i", "t">>

Init ==
    /\ pc = "startup"
    /\ openai_api_key \in Keys
    /\ uncaught = ""
    /\ chat_history = <<>>
    /\ user_input = <<>>
    /\ result = [has_output |-> FALSE, output |-> <<>>]
    /\ calls = <<>>
    /\ terminal = <<>>
    /\ preferences = <<>>
    /\ observation = ""

\* module start-up, then run_agent up to the loop
Startup ==
    /\ pc = "startup"
    /\ IF KeyMissing(openai_api_key)
       THEN /\ uncaught' = ApiKeyErrorText
            /\ pc' = "aborted"
            /\ UNCHANGED terminal
       ELSE /\ terminal' = Append(terminal, Shown("Welcome", <<>>))
            /\ pc' = "awaiting"
            /\ UNCHANGED uncaught
    /\ chat_history' = <<>>
    /\ UNCHANGED <<openai_api_key, user_input, result, calls, toolVars>>

\* input() returns the sentinel: print Goodbye, break
ReadExit ==
    /\ pc = "awaiting"
    /\ \E line \in Lines :
        /\ IsExit(line)
        /\ user_input' = line
        /\ terminal' = terminal \o <<Shown("You", line), Shown("Goodbye", <<>>)>>
    /\ pc' = "terminated"
    /\ UNCHANGED <<openai_api_key, uncaught, chat_history, result, calls, toolVars>>

\* ReadLine passing the history with the current input already in it
ReadLine_withCurrent ==
    /\ pc = "awaiting"
    /\ NumReads < MaxReads
    /\ \E line \in Lines :
        /\ ~IsExit(line)
        /\ user_input' = line
        /\ terminal' = Append(terminal, Shown("You", line))
        /\ calls' = Append(calls, [input |-> line,
                                   chat_history |-> Append(chat_history, HumanMessage(line))])
    /\ pc' = "dispatching"
    /\ UNCHANGED <<openai_api_key, uncaught, chat_history, result, toolVars>>

\* input() returns another line: agent_executor.invoke is called
ReadLine ==
    /\ pc = "awaiting"
    /\ NumReads < MaxReads
    /\ \E line \in Lines :
        /\ ~IsExit(line)
        /\ user_input' = line
        /\ terminal' = Append(terminal, Shown("You", line))
        /\ calls' = Append(calls, [input |-> line, chat_history |-> chat_history])
    /\ pc' = "dispatching"
    /\ UNCHANGED <<openai_api_key, uncaught, chat_history, result, toolVars>>

\* agent_executor.invoke returns
AgentReturns ==
    /\ pc = "dispatching"
    /\ \E res \in Results : result' = res
    /\ pc' = "rendering"
    /\ UNCHANGED <<openai_api_key, uncaught, chat_history, user_input, calls, terminal, toolVars>>

\* AgentRaises with the exception ending the loop
AgentRaises_fatal ==
    /\ pc = "dispatching"
    /\ \E e \in Errors : terminal' = Append(terminal, Shown("Error", e))
    /\ pc' = "terminated"
    /\ UNCHANGED <<openai_api_key, uncaught, chat_history, user_input, result, calls, toolVars>>

\* agent_executor.invoke raises: except Exception prints the description
AgentRaises ==
    /\ pc = "dispatching"
    /\ \E e \in Errors : terminal' = Append(terminal, Shown("Error", e))
    /\ pc' = "awaiting"
    /\ UNCHANGED <<openai_api_key, uncaught, chat_history, user_input, result, calls, toolVars>>

\* Render appending the user turn before the reply is read
Render_userTurnFirst ==
    /\ pc = "rendering"
    /\ IF result.has_output
       THEN /\ terminal' = Append(terminal, Shown("Assistant", result.output))
            /\ chat_history' = chat_history \o
                   <<HumanMessage(user_input), SystemMessage(result.output)>>
       ELSE /\ terminal' = Append(terminal, Shown("Error", KeyErrorText))
            /\ chat_history' = Append(chat_history, HumanMessage(user_input))
    /\ pc' = "awaiting"
    /\ UNCHANGED <<openai_api_key, uncaught, user_input, result, calls, toolVars>>

\* Render appending the reply ahead of the user turn
Render_replyFirst ==
    /\ pc = "rendering"
    /\ IF result.has_output
       THEN /\ terminal' = Append(terminal, Shown("Assistant", result.output))
            /\ chat_history' = chat_history \o
                   <<SystemMessage(result.output), HumanMessage(user_input)>>
       ELSE /\ terminal' = Append(terminal, Shown("Error", KeyErrorText))
            /\ UNCHANGED chat_history
    /\ pc' = "awaiting"
    /\ UNCHANGED <<openai_api_key, uncaught, user_input, result, calls, toolVars>>

\* the rest of the try block: print the reply, append the two turns;
\* result["output"] raises KeyError when the key is missing
Render ==
    /\ pc = "rendering"
    /\ IF result.has_output
       THEN /\ terminal' = Append(terminal, Shown("Assistant", result.output))
            /\ chat_history' = chat_history \o
                   <<HumanMessage(user_input), SystemMessage(result.output)>>
       ELSE /\ terminal' = Append(terminal, Shown("Error", KeyErrorText))
            /\ UNCHANGED chat_history
    /\ pc' = "awaiting"
    /\ UNCHANGED <<openai_api_key, uncaught, user_input, result, calls, toolVars>>

Next ==
    \/ Startup
    \/ ReadExit
    \/ ReadLine
    \/ AgentReturns
    \/ AgentRaises
    \/ Render

Spec == Init /\ [][Next]_vars

\* every call to the agent returns or raises, and the user eventually types the sentinel
LiveSpec ==
    /\ Init
    /\ [][Next]_vars
    /\ WF_vars(Startup)
    /\ WF_vars(AgentReturns \/ AgentRaises)
    /\ WF_vars(Render)
    /\ SF_vars(ReadExit)

-----------------------------------------------------------------------------
(* Vocabulary of the properties *)

\* character a of an input is letter b of a keyword, in either case
SameLetter(a, b) ==
    a = b \/ \E i \in 1..Len(UpperCase) : UpperCase[i] = a /\ LowerCase[i] = b

\* keyword kw occurs in s, letter case ignored
Occurs(kw, s) ==
    \E i \in 1..Len(s) :
        /\ i + Len(kw) - 1 <= Len(s)
        /\ \A j \in 1..Len(kw) : SameLetter(s[i + j - 1], kw[j])

Priority == <<kw_vegan, kw_vegetarian, kw_low_carb, kw_high_protein>>

ListOf == <<VeganList, VegetarianList, LowCarbList, HighProteinList>>

\* line is the sentinel, letter case ignored
ExitIgnoringCase(line) ==
    /\ Len(line) = 4
    /\ \A j \in 1..4 : SameLetter(line[j], <<"e", "x", "i", "t">>[j])

ExitSpellings == { <<"e", "x", "i", "t">>, <<"E", "x", "i", "t">>, <<"E", "X", "I", "T">> }

\* the texts of a list of turns
Texts(h) == [i \in 1..Len(h) |-> h[i].content]

\* positions on the terminal of the events of kind e
Positions(t, e) == { i \in 1..Len(t) : t[i].ev = e }

\* position on the terminal of the k-th event of kind e
Kth(t, e, k) ==
    CHOOSE i \in Positions(t, e) : Cardinality({ j \in Positions(t, e) : j <= i }) = k

\* the texts of the exchanges shown as answered on terminal t: line typed, reply
RECURSIVE Answered(_)
Answered(t) ==
    IF t = <<>> THEN <<>>
    ELSE LET n == Len(t)
             before == SubSeq(t, 1, n - 1)
         IN  IF t[n].ev = "Assistant"
             THEN Answered(before) \o <<t[n - 1].text, t[n].text>>
             ELSE Answered(before)

LastShown(t) == t[Len(t)]

-----------------------------------------------------------------------------
(* Properties *)

\* C1: suggest_groceries returns the list of the first keyword, in the order
\* vegan, vegetarian, low carb, high protein, that occurs in the input with
\* letter case ignored.
C1_FirstKeywordWins ==
    pc = "tool_done" =>
        \A k \in 1..4 :
            ( /\ Occurs(Priority[k], preferences)
              /\ \A j \in 1..(k - 1) : ~Occurs(Priority[j], preferences) )
            => observation = ListOf[k]

\* an input in mixed case with both vegetarian and low carb, and not vegan
C1_Witness ==
    /\ pc = "tool_done"
    /\ preferences # lower(preferences)
    /\ Occurs(kw_vegetarian, preferences)
    /\ Occurs(kw_low_carb, preferences)
    /\ ~Occurs(kw_vegan, preferences)
    /\ observation = VegetarianList

\* C2: suggest_groceries returns one of the five fixed lists for every input,
\* and the default list for every input in which none of the four keywords
\* occurs.
C2_TotalWithDefault ==
    pc = "tool_done" =>
        /\ observation \in { VeganList, VegetarianList, LowCarbList, HighProteinList, DefaultList }
        /\ (\A k \in 1..4 : ~Occurs(Priority[k], preferences)) => observation = DefaultList

\* the spelling low-carb gets the default list
C2_Witness ==
    /\ pc = "tool_done"
    /\ preferences = <<"l", "o", "w", "-", "c", "a", "r", "b">>
    /\ observation = DefaultList

\* C3: with N exchanges answered, chat_history has 2N entries; entry 2k-1 is
\* the line typed in the k-th answered exchange and entry 2k is its reply.
C3_HistoryIsAnsweredExchanges ==
    LET N == Cardinality(Positions(terminal, "Assistant"))
    IN  /\ Len(chat_history) = 2 * N
        /\ \A k \in 1..N :
              LET i == Kth(terminal, "Assistant", k)
              IN  /\ terminal[i - 1].ev = "You"
                  /\ chat_history[2 * k - 1].content = terminal[i - 1].text
                  /\ chat_history[2 * k].content = terminal[i].text

\* two answered exchanges with different lines and replies, failures in between
C3_Witness ==
    /\ pc = "awaiting"
    /\ Len(chat_history) = 4
    /\ Positions(terminal, "Error") # {}
    /\ chat_history[1].content # chat_history[3].content
    /\ chat_history[2].content # chat_history[4].content

\* C4: a step that reports a failed call leaves chat_history as it was when
\* the line was read.
C4_FailureKeepsHistory ==
    [][ (terminal' # terminal /\ LastShown(terminal').ev = "Error")
            => /\ chat_history' = chat_history
               /\ chat_history' = calls[Len(calls)].chat_history ]_vars

\* after an answered exchange, a raising call and a result without output
C4_Witness ==
    /\ pc = "awaiting"
    /\ Len(chat_history) = 2
    /\ Len(terminal) = 7
    /\ terminal[3].ev = "Assistant"
    /\ \E i, j \in Positions(terminal, "Error") :
          terminal[i].text = KeyErrorText /\ terminal[j].text \in Errors

\* C5: reading exit, Exit or EXIT while awaiting input ends the loop with no
\* call to the agent and chat_history unchanged.
C5_ExitEndsLoop ==
    [][ (pc = "awaiting" /\ pc' # "awaiting" /\ user_input' \in ExitSpellings)
            => /\ pc' = "terminated"
               /\ chat_history' = chat_history
               /\ calls' = calls ]_vars

\* EXIT read after an answered exchange
C5_Witness ==
    /\ pc = "terminated"
    /\ user_input = <<"E", "X", "I", "T">>
    /\ Len(chat_history) = 2
    /\ Len(calls) = 1

\* C6: with the credential absent or empty the process aborts with the error
\* and never shows a prompt, reads a line or calls the agent.
C6_NoCredentialNoLoop ==
    (openai_api_key = None \/ openai_api_key = <<>>) =>
        /\ pc \in { "startup", "aborted" }
        /\ pc = "aborted" => uncaught = ApiKeyErrorText
        /\ terminal = <<>>
        /\ calls = <<>>
        /\ chat_history = <<>>

\* aborted on an empty credential
C6_Witness ==
    /\ pc = "aborted"
    /\ openai_api_key = <<>>
    /\ uncaught = ApiKeyErrorText

\* C7: every entry of chat_history has the user or the assistant role: the
\* line typed has the user role and the reply has the assistant role.
C7_RolesUserAssistant ==
    \A i \in 1..Len(chat_history) :
        /\ chat_history[i].type \in { "human", "ai" }
        /\ i % 2 = 1 => chat_history[i].type = "human"
        /\ i % 2 = 0 => chat_history[i].type = "ai"

\* C8: a failed call is reported and the loop awaits input again; the agent
\* is called once per line read and never again for a failed call.
C8_FailureRecoverable ==
    [][ /\ (pc = "dispatching" /\ pc' # "dispatching" /\ pc' # "rendering")
            => /\ pc' = "awaiting"
               /\ LastShown(terminal').ev = "Error"
               /\ calls' = calls
        /\ (pc = "rendering" /\ pc' # "rendering")
            => /\ pc' = "awaiting"
               /\ LastShown(terminal').ev \in { "Error", "Assistant" }
               /\ calls' = calls
        /\ calls' # calls
            => /\ pc = "awaiting"
               /\ terminal' = Append(terminal, Shown("You", user_input'))
               /\ Len(calls') = Len(calls) + 1 ]_vars

\* two failed calls in a row, then an answered one
C8_Witness ==
    /\ pc = "awaiting"
    /\ Len(terminal) = 7
    /\ terminal[3].ev = "Error"
    /\ terminal[5].ev = "Error"
    /\ terminal[7].ev = "Assistant"
    /\ Len(chat_history) = 2
    /\ Len(calls) = 3

\* C9: the k-th call to the agent carries the k-th line read and the turns of
\* the exchanges answered before that line, and nothing else.
C9_CallCarriesPriorTurns ==
    \A k \in 1..Len(calls) :
        LET i == Kth(terminal, "You", k)
        IN  /\ calls[k].input = terminal[i].text
            /\ Texts(calls[k].chat_history) = Answered(SubSeq(terminal, 1, i - 1))

\* the third call, after one failed and one answered exchange
C9_Witness ==
    /\ Len(calls) = 3
    /\ pc = "dispatching"
    /\ Cardinality(Positions(terminal, "Error")) = 1
    /\ Len(calls[3].chat_history) = 2
    /\ calls[3].input = calls[2].input

\* C10: the loop terminates only from awaiting input and only on a line that
\* is exit with letter case ignored; any other line is passed to the agent in
\* one call; and the loop, once awaiting input, eventually terminates.
C10_OnlyExitTerminates ==
    /\ [][ (pc' = "terminated" /\ pc # "terminated")
              => pc = "awaiting" /\ ExitIgnoringCase(user_input') ]_vars
    /\ [][ (pc = "awaiting" /\ pc' # "awaiting" /\ ~ExitIgnoringCase(user_input'))
              => /\ pc' = "dispatching"
                 /\ calls' = Append(calls, [input |-> user_input', chat_history |-> chat_history]) ]_vars
    /\ (pc = "awaiting") ~> (pc = "terminated")

\* terminated after the empty line, exit between spaces and a sentence with exit
C10_Witness ==
    /\ pc = "terminated"
    /\ { calls[k].input : k \in 1..Len(calls) } = { <<>>, <<" ", "e", "x", "i", "t", " ">>, <<"n", "o", " ", "e", "x", "i", "t">> }

====
